---------------------------- MODULE Spec2Model ----------------------------
(***************************************************************************)
(* Model of the build-dispatch core of central (src/central/buildbot.py    *)
(* and src/central/utils.py): the PullRequestBuilder worker, the job       *)
(* submitter send_build_request over the buildbot job directory, the       *)
(* BuildStatusCollector worker and the DaemonThread supervisor.            *)
(*                                                                         *)
(* Byte strings are TLA+ strings (Len and \o act on them as len() and +    *)
(* do on bytes).  Commit hashes are sequences of one-character strings so  *)
(* that the slice headrev[:6] is computed, not assumed.                    *)
(***************************************************************************)
EXTENDS Integers, Sequences, FiniteSets, TLC

(***************************************************************************)
(* Bounds of the model.                                                    *)
(***************************************************************************)
MaxTriggers == 2        \* triggers pushed to the PullRequestBuilder
MaxFairTriggers == 3    \* the same, where the worker is scheduled fairly
MaxResults == 2         \* raw results pushed to the BuildStatusCollector
MaxCalls == 2           \* send_build_request calls of the stand-alone submitters

None == "None"          \* Python's None

Min(a, b) == IF a < b THEN a ELSE b

RECURSIVE Str(_)
\* ''.join(cs): the string spelled by a sequence of characters.
Str(cs) == IF cs = <<>> THEN "" ELSE Head(cs) \o Str(Tail(cs))

\* s[:k] on a sequence of characters (Python clamps k to len(s)).
Prefix(cs, k) == SubSeq(cs, 1, Min(k, Len(cs)))

(***************************************************************************)
(* Configuration (module config, read through cfg).                        *)
(***************************************************************************)
pr_builders == <<"linux", "win">>          \* cfg.buildbot.pr_builders
fifoci_builders == <<"fifoci", "win">>     \* cfg.buildbot.fifoci_builders
buildbot_url == "http://bb/"               \* cfg.buildbot.url

InSeq(x, s) == \E k \in 1..Len(s) : s[k] = x

(***************************************************************************)
(* Wire encoder.                                                           *)
(***************************************************************************)
\* make_netstring(s): decimal length, ':', the bytes, ','.
make_netstringOffByOne(s) == ToString(Len(s) + 1) \o ":" \o s \o ","
make_netstring(s) == ToString(Len(s)) \o ":" \o s \o ","

\* json.dumps of a str whose characters need no escaping.
JsonStr(s) == "\"" \o s \o "\""

RECURSIVE JsonItems(_)
JsonItems(ss) ==
    IF ss = <<>> THEN ""
    ELSE IF Len(ss) = 1 THEN JsonStr(ss[1])
    ELSE JsonStr(ss[1]) \o ", " \o JsonItems(Tail(ss))

\* json.dumps of a list of str, default separators.
JsonList(ss) == "[" \o JsonItems(ss) \o "]"

\* json.dumps(request_dict, ensure_ascii=True): keys in insertion order,
\* separators ', ' and ': '.
json_dumps_request(repo, pr_id, job_id, baserev, headrev, who, comment) ==
    "{\"branch\": " \o JsonStr("refs/pull/" \o ToString(pr_id) \o "/head")
    \o ", \"builderNames\": " \o JsonList(pr_builders)
    \o ", \"jobid\": " \o JsonStr(job_id)
    \o ", \"baserev\": \"\""
    \o ", \"patch_level\": 0"
    \o ", \"patch_body\": null"
    \o ", \"who\": " \o JsonStr(who)
    \o ", \"comment\": " \o JsonStr(comment)
    \o ", \"properties\": {\"branchname\": " \o JsonStr("pr-" \o ToString(pr_id))
    \o ", \"baserev\": " \o JsonStr(Str(baserev))
    \o ", \"headrev\": " \o JsonStr(Str(headrev))
    \o ", \"shortrev\": " \o JsonStr(Str(Prefix(headrev, 6)))
    \o ", \"pr_id\": " \o ToString(pr_id)
    \o ", \"repo\": " \o JsonStr(repo)
    \o "}}"

\* make_build_request: the version netstring, then the payload netstring.
make_build_request(repo, pr_id, job_id, baserev, headrev, who, comment) ==
    LET encoded == json_dumps_request(repo, pr_id, job_id, baserev, headrev,
                                      who, comment)
        version == make_netstring("5")
    IN  version \o make_netstring(encoded)

(***************************************************************************)
(* State.                                                                  *)
(***************************************************************************)
VARIABLES
    queue,      \* PullRequestBuilder.queue: triggers waiting, oldest first
    pushed,     \* number of triggers pushed so far (arrival numbers)
    pc,         \* position of the PullRequestBuilder thread
    cur,        \* the trigger run() is processing (its locals)
    pr,         \* the pull request fetched for it
    i,          \* index of the loop over cfg.buildbot.pr_builders
    trace,      \* history: what run() did, in order (see Did)
    bus,        \* history: the events handed to events.dispatcher.dispatch
    tmp,        \* jobdir/tmp: file name -> content
    new,        \* jobdir/new: file name -> content
    drawn,      \* number of uuid4() values drawn so far
    sb,         \* per process: position and locals inside send_build_request
    calls,      \* history: one record per send_build_request call
    cqueue,     \* BuildStatusCollector.queue
    cpushed,    \* number of raw results pushed so far
    cdone,      \* number of raw results run() has finished with
    cpc,        \* position of the BuildStatusCollector thread
    ccur,       \* the raw result run() has taken (its local evt)
    chist,      \* history: the raw results pushed, in arrival order
    origin,     \* history: the listener and bus event behind each trigger
                \* (see Origin)
    daemon,     \* a DaemonThread around a target that may return or raise
    periodic    \* the DaemonThread of a spawn_periodic_task wrapper

dvars == <<queue, pushed, pc, cur, pr, i, trace>>
fvars == <<tmp, new, drawn, sb, calls>>
cvars == <<cqueue, cpushed, cdone, cpc, ccur, chist>>
tvars == <<daemon, periodic>>
ovars == <<origin, daemon, periodic>>
vars == <<queue, pushed, pc, cur, pr, i, trace, bus, tmp, new, drawn, sb,
          calls, cqueue, cpushed, cdone, cpc, ccur, chist, origin, daemon,
          periodic>>


(***************************************************************************)
(* The job directory and send_build_request.                               *)
(*                                                                         *)
(* A file's content is a prefix of the bytes handed to write(): the record *)
(* [data |-> b, n |-> k] is the first k bytes of b.                        *)
(***************************************************************************)
Put(f, k, v) == [x \in (DOMAIN f) \cup {k} |-> IF x = k THEN v ELSE f[x]]
Drop(f, k) == [x \in (DOMAIN f) \ {k} |-> f[x]]

Complete(file) == file.n = Len(file.data)

\* str(uuid.uuid4()): a name different from every name drawn before.
uuid4 == drawn + 1

\* open(path, 'wb').write(build_request): the bytes are buffered, and reach
\* the file when the unreferenced file object is closed by its finalizer.
\* A flush that fails part-way leaves a shorter file, and the finalizer
\* discards the error.  The result is the number of bytes in the file.
FlushOutcomes(req) == {0, 4, Len(req) - 1, Len(req)}

IdleSB == [pc |-> "idle", req |-> "", path |-> 0, final |-> 0, call |-> 0]

\* Lines 55-56, the open: the tmp path is named and the file created empty;
\* when open() fails, OSError leaves send_build_request.
SBOpen(p, n, req, ok) ==
    LET path == uuid4 IN
    /\ sb[p].pc = "idle"
    /\ drawn' = drawn + 1
    /\ calls' = Append(calls, [p |-> p, n |-> n, req |-> req, path |-> path,
                               final |-> 0,
                               fault |-> IF ok THEN "none" ELSE "open",
                               status |-> IF ok THEN "open" ELSE "raised"])
    /\ IF ok
       THEN /\ tmp' = Put(tmp, path, [data |-> req, n |-> 0])
            /\ sb' = [sb EXCEPT ![p] = [pc |-> "write", req |-> req,
                                        path |-> path, final |-> 0,
                                        call |-> Len(calls) + 1]]
       ELSE UNCHANGED <<tmp, sb>>
    /\ UNCHANGED new

\* Line 56, the write and the implicit close: k bytes reach the file.
SBWrite(p, k) ==
    /\ sb[p].pc = "write"
    /\ tmp' = IF sb[p].path \in DOMAIN tmp
              THEN [tmp EXCEPT ![sb[p].path] = [data |-> sb[p].req, n |-> k]]
              ELSE tmp
    /\ sb' = [sb EXCEPT ![p].pc = "rename"]
    /\ calls' = [calls EXCEPT
                    ![sb[p].call].fault =
                        IF k < Len(sb[p].req) THEN "write" ELSE "none",
                    ![sb[p].call].status = "written"]
    /\ UNCHANGED <<new, drawn>>

\* Lines 57-58: the final path is named and the tmp file renamed onto it (a
\* rename replaces a file already at the target); when os.rename fails,
\* OSError leaves send_build_request and the tmp file stays.
SBRename(p, ok) ==
    LET final == uuid4
        c == sb[p].call
        done == ok /\ sb[p].path \in DOMAIN tmp
    IN
    /\ sb[p].pc = "rename"
    /\ drawn' = drawn + 1
    /\ IF done
       THEN /\ new' = Put(new, final, tmp[sb[p].path])
            /\ tmp' = Drop(tmp, sb[p].path)
            /\ sb' = [sb EXCEPT ![p].pc = "log", ![p].final = final]
            /\ calls' = [calls EXCEPT ![c].final = final,
                                      ![c].status = "renamed"]
       ELSE /\ UNCHANGED <<new, tmp>>
            /\ sb' = [sb EXCEPT ![p] = IdleSB]
            /\ calls' = [calls EXCEPT ![c].final = final,
                                      ![c].fault = "rename",
                                      ![c].status = "raised"]

\* Line 59: logging.info('Sent build request: %r', final_path), and return.
SBLog(p) ==
    /\ sb[p].pc = "log"
    /\ calls' = [calls EXCEPT ![sb[p].call].status = "sent"]
    /\ sb' = [sb EXCEPT ![p] = IdleSB]
    /\ UNCHANGED <<tmp, new, drawn>>


(***************************************************************************)
(* Events.                                                                 *)
(***************************************************************************)
\* events.BuildStatus(repo, hash, shortrev, builder, pr, success, pending,
\*                    url, description)
BuildStatus(repo, hash, shortrev, builder, pr_id, success, pending, url, description) ==
    [type |-> "BuildStatus", repo |-> repo, hash |-> hash,
     shortrev |-> shortrev, builder |-> builder, pr |-> pr_id,
     success |-> success, pending |-> pending, url |-> url,
     description |-> description]

\* events.dispatcher.dispatch(topic, evt); n is the arrival number of the
\* trigger or raw result the event is dispatched for.
Dispatched(n, topic, evt) == Append(bus, [n |-> n, topic |-> topic, evt |-> evt])

(***************************************************************************)
(* PullRequestBuilder.                                                     *)
(***************************************************************************)
Who == {"bob"}
Repos == {"dolphin-emu/dolphin"}
PrIds == {7}
Shas == {<<"a", "b", "c", "d", "e", "f", "0", "1">>}
BaseSha == <<"9", "8", "7", "6", "5", "4", "3", "2">>

\* What requests.get(...).json() and the reads of the reply can come to: a
\* pull request whose mergeable is true, false or null, or an exception
\* (the request fails, the body is no JSON, a key is missing).
Replies ==
    [mergeable : {"true", "false", "null"}, base : {BaseSha}, head : Shas]
FetchErrors == {"ConnectionError", "KeyError"}

NoTrigger == [n |-> 0, in_behalf_of |-> "", trusted |-> FALSE, repo |-> "",
              pr_id |-> 0]
NoReply == [mergeable |-> "null", base |-> <<>>, head |-> <<>>]

\* An entry of the history trace: run() did op for the trigger that arrived
\* n-th.  "get" (arg: the trigger's trust), "fetch" (arg: the reply's
\* mergeable, or the exception raised), "dispatch" (arg: the event's
\* builder), "submit" (send_build_request called), "raise" (arg: the
\* exception that left run()), "sent" (send_build_request returned).
Did(n, op, arg) == [n |-> n, op |-> op, arg |-> arg]

\* push(in_behalf_of, trusted, repo, pr_id): self.queue.put(...)
Push(in_behalf_of, trusted, repo, pr_id) ==
    /\ pushed' = pushed + 1
    /\ queue' = Append(queue, [n |-> pushed + 1, in_behalf_of |-> in_behalf_of,
                               trusted |-> trusted, repo |-> repo,
                               pr_id |-> pr_id])
    /\ UNCHANGED <<pc, cur, pr, i, trace, bus>>
    /\ UNCHANGED fvars /\ UNCHANGED cvars /\ UNCHANGED tvars

\* queue.Queue.get(): the oldest item.
QueueGetLast(q) == [item |-> q[Len(q)], rest |-> SubSeq(q, 1, Len(q) - 1)]
QueueGet(q) == [item |-> Head(q), rest |-> Tail(q)]

\* Line 71: self.queue.get() blocks until a trigger is queued.
Get ==
    /\ pc = "get"
    /\ queue # <<>>
    /\ cur' = QueueGet(queue).item
    /\ queue' = QueueGet(queue).rest
    /\ pc' = "fetch"
    /\ trace' = Append(trace, Did(cur'.n, "get", IF cur'.trusted THEN "trusted"
                                                 ELSE "untrusted"))
    /\ UNCHANGED <<pushed, pr, i, bus>>
    /\ UNCHANGED fvars /\ UNCHANGED cvars /\ UNCHANGED ovars

\* Lines 74-82: the pull request is fetched and read.
FetchOk ==
    /\ pc = "fetch"
    /\ \E reply \in Replies :
          /\ pr' = reply
          /\ trace' = Append(trace, Did(cur.n, "fetch", reply.mergeable))
    /\ pc' = "check"
    /\ UNCHANGED <<queue, pushed, cur, i, bus>>
    /\ UNCHANGED fvars /\ UNCHANGED cvars /\ UNCHANGED ovars

\* Lines 74-82 raise: the exception leaves run(), and DaemonThread.run
\* (utils.py line 42) catches it, logs it and sleeps.
FetchRaise ==
    /\ pc = "fetch"
    /\ \E e \in FetchErrors :
          trace' = trace \o <<Did(cur.n, "fetch", e), Did(cur.n, "raise", e)>>
    /\ pc' = "sleep"
    /\ UNCHANGED <<queue, pushed, cur, pr, i, bus>>
    /\ UNCHANGED fvars /\ UNCHANGED cvars /\ UNCHANGED ovars

\* Lines 84-103: the trust and mergeability checks, each with its event.
NotTrustedEvt(t, p) ==
    BuildStatus(t.repo, Str(p.head), Str(Prefix(p.head, 6)), "default", t.pr_id,
                FALSE, FALSE, "",
                "PR not built because " \o t.in_behalf_of
                    \o " is not auto-trusted.")
NotMergeableEvt(t, p) ==
    BuildStatus(t.repo, Str(p.head), Str(Prefix(p.head, 6)), "default", t.pr_id,
                FALSE, FALSE, "", "PR cannot be merged, please rebase.")
PassedEvt(t, p) ==
    BuildStatus(t.repo, Str(p.head), Str(Prefix(p.head, 6)), "default", t.pr_id,
                TRUE, FALSE, "",
                "Very basic checks passed, handed off to Buildbot.")
PendingEvtSwapped(t, p, builder) ==
    BuildStatus(t.repo, Str(p.head), Str(Prefix(p.head, 6)), builder, t.pr_id,
                TRUE, FALSE, buildbot_url, "Auto build pending")
PendingEvtDefault(t, p, builder) ==
    BuildStatus(t.repo, Str(p.head), Str(Prefix(p.head, 6)), "default", t.pr_id,
                FALSE, TRUE, buildbot_url, "Auto build pending")
PendingEvt(t, p, builder) ==
    BuildStatus(t.repo, Str(p.head), Str(Prefix(p.head, 6)), builder, t.pr_id,
                FALSE, TRUE, buildbot_url, "Auto build pending")

\* The branch lines 84-103 take: "untrusted", "unmergeable" or "build".
VerdictMergeFirst(t, p) ==
    IF p.mergeable = "false" THEN "unmergeable"
    ELSE IF ~t.trusted THEN "untrusted"
    ELSE "build"
VerdictNoMerge(t, p) == IF ~t.trusted THEN "untrusted" ELSE "build"
VerdictTruthy(t, p) ==
    IF ~t.trusted THEN "untrusted"
    ELSE IF p.mergeable # "true" THEN "unmergeable"
    ELSE "build"
Verdict(t, p) ==
    IF ~t.trusted THEN "untrusted"
    ELSE IF p.mergeable = "false" THEN "unmergeable"
    ELSE "build"

Check ==
    /\ pc = "check"
    /\ LET v == Verdict(cur, pr)
           evt == CASE v = "untrusted" -> NotTrustedEvt(cur, pr)
                    [] v = "unmergeable" -> NotMergeableEvt(cur, pr)
                    [] OTHER -> PassedEvt(cur, pr)
       IN  /\ bus' = Dispatched(cur.n, "prbuilder", evt)
           /\ pc' = IF v = "build" THEN "pending" ELSE "get"
    /\ i' = 1
    /\ trace' = Append(trace, Did(cur.n, "dispatch", "default"))
    /\ UNCHANGED <<queue, pushed, cur, pr>>
    /\ UNCHANGED fvars /\ UNCHANGED cvars /\ UNCHANGED ovars

\* Lines 105-109: one pending event per configured builder, in order.
Pending ==
    /\ pc = "pending"
    /\ i <= Len(pr_builders)
    /\ bus' = Dispatched(cur.n, "prbuilder", PendingEvt(cur, pr, pr_builders[i]))
    /\ i' = i + 1
    /\ trace' = Append(trace, Did(cur.n, "dispatch", pr_builders[i]))
    /\ UNCHANGED <<queue, pushed, pc, cur, pr>>
    /\ UNCHANGED fvars /\ UNCHANGED cvars /\ UNCHANGED ovars

\* Lines 111-114: the request built for the trigger in hand.
RequestFor(t, p) ==
    make_build_request(
        t.repo, t.pr_id, ToString(t.pr_id) \o "-" \o Str(Prefix(p.head, 6)),
        p.base, p.head,
        "Central (on behalf of: " \o t.in_behalf_of \o ")",
        "Auto build for PR #" \o ToString(t.pr_id) \o " (" \o Str(p.head) \o ").")

\* Lines 111-115 and 55-56: the request is built and send_build_request
\* entered; it opens its tmp file.
Submit ==
    /\ pc = "pending"
    /\ i > Len(pr_builders)
    /\ \E ok \in BOOLEAN :
          /\ SBOpen("prbuilder", cur.n, RequestFor(cur, pr), ok)
          /\ pc' = IF ok THEN "send" ELSE "sleep"
          /\ trace' = IF ok THEN Append(trace, Did(cur.n, "submit", ""))
                      ELSE trace \o <<Did(cur.n, "submit", ""),
                                      Did(cur.n, "raise", "OSError")>>
    /\ UNCHANGED <<queue, pushed, cur, pr, i, bus>>
    /\ UNCHANGED cvars /\ UNCHANGED ovars

\* Line 56 inside the call made at line 115.
SendWrite ==
    /\ pc = "send"
    /\ \E k \in FlushOutcomes(sb["prbuilder"].req) : SBWrite("prbuilder", k)
    /\ UNCHANGED dvars /\ UNCHANGED bus /\ UNCHANGED cvars /\ UNCHANGED ovars

\* Lines 57-58 inside the call made at line 115.
SendRename ==
    /\ pc = "send"
    /\ \E ok \in BOOLEAN :
          /\ SBRename("prbuilder", ok)
          /\ pc' = IF ok THEN "send" ELSE "sleep"
          /\ trace' = IF ok THEN trace
                      ELSE Append(trace, Did(cur.n, "raise", "OSError"))
    /\ UNCHANGED <<queue, pushed, cur, pr, i, bus>>
    /\ UNCHANGED cvars /\ UNCHANGED ovars

\* Line 59, the return from send_build_request and the loop's next turn.
SendLog ==
    /\ pc = "send"
    /\ SBLog("prbuilder")
    /\ pc' = "get"
    /\ trace' = Append(trace, Did(cur.n, "sent", ""))
    /\ UNCHANGED <<queue, pushed, cur, pr, i, bus>>
    /\ UNCHANGED cvars /\ UNCHANGED ovars

\* DaemonThread.run, utils.py lines 38-44: after the sleep the loop calls the
\* target again; run() starts over at line 71 with the same queue.
RestartNever ==
    /\ pc = "sleep"
    /\ UNCHANGED vars
RestartRequeue ==
    /\ pc = "sleep"
    /\ pc' = "get"
    /\ queue' = <<cur>> \o queue
    /\ UNCHANGED <<pushed, cur, pr, i, trace, bus>>
    /\ UNCHANGED fvars /\ UNCHANGED cvars /\ UNCHANGED ovars

Restart ==
    /\ pc = "sleep"
    /\ pc' = "get"
    /\ UNCHANGED <<queue, pushed, cur, pr, i, trace, bus>>
    /\ UNCHANGED fvars /\ UNCHANGED cvars /\ UNCHANGED ovars

\* The collector's local evt before run() has taken a result.
NoResult == [n |-> 0]

\* A thread that has not been started: no position in the loop, nothing done.
IdleThread == [pc |-> "idle", interval |-> 0, log |-> <<>>]
\* The origin of a trigger whose listener and event are left open.
NoOrigin == [listener |-> "any", type |-> "any", repo |-> "",
             privileged |-> FALSE, action |-> "any"]

\* The three listeners of start(), taken together: any trigger they can push.
AnyPush ==
    \E w \in Who, t \in BOOLEAN, r \in Repos, id \in PrIds :
        Push(w, t, r, id) /\ origin' = Append(origin, NoOrigin)
Listeners == pushed < MaxTriggers /\ AnyPush

Worker ==
    \/ Get
    \/ FetchOk
    \/ FetchRaise
    \/ Check
    \/ Pending
    \/ Submit
    \/ SendWrite
    \/ SendRename
    \/ SendLog
    \/ Restart

Procs == {"prbuilder", "s1", "s2"}

Init ==
    /\ queue = <<>>
    /\ pushed = 0
    /\ pc = "get"
    /\ cur = NoTrigger
    /\ pr = NoReply
    /\ i = 1
    /\ trace = <<>>
    /\ bus = <<>>
    /\ tmp = <<>>
    /\ new = <<>>
    /\ drawn = 0
    /\ sb = [p \in Procs |-> IdleSB]
    /\ calls = <<>>
    /\ cqueue = <<>>
    /\ cpushed = 0
    /\ cdone = 0
    /\ cpc = "get"
    /\ ccur = NoResult
    /\ chist = <<>>
    /\ origin = <<>>
    /\ daemon = IdleThread
    /\ periodic = IdleThread

Next == Listeners \/ Worker

Spec == Init /\ [][Next]_vars

\* The PullRequestBuilder thread keeps running: a step it can take (a blocking
\* call returning or raising, the sleep ending) is eventually taken.
FairListeners == pushed < MaxFairTriggers /\ AnyPush
FairNext == FairListeners \/ Worker
FairSpec == Init /\ [][FairNext]_vars /\ WF_vars(Worker)


(***************************************************************************)
(* Stand-alone submitters: processes that call send_build_request on the   *)
(* same job directory, steps interleaved in any order.                     *)
(***************************************************************************)
Submitters == {"s1", "s2"}

SubPrIds == {7, 12}
SubRequests ==
    {RequestFor([n |-> 0, in_behalf_of |-> "bob", trusted |-> TRUE,
                 repo |-> "dolphin-emu/dolphin", pr_id |-> id],
                [mergeable |-> "true", base |-> BaseSha, head |-> h]) :
        id \in SubPrIds, h \in Shas}

SubOpen ==
    /\ Len(calls) < MaxCalls
    /\ \E p \in Submitters, req \in SubRequests, ok \in BOOLEAN :
          SBOpen(p, 0, req, ok)
    /\ UNCHANGED dvars /\ UNCHANGED bus /\ UNCHANGED cvars /\ UNCHANGED ovars

SubWrite ==
    /\ \E p \in Submitters : \E k \in FlushOutcomes(sb[p].req) : SBWrite(p, k)
    /\ UNCHANGED dvars /\ UNCHANGED bus /\ UNCHANGED cvars /\ UNCHANGED ovars

SubRename ==
    /\ \E p \in Submitters, ok \in BOOLEAN : SBRename(p, ok)
    /\ UNCHANGED dvars /\ UNCHANGED bus /\ UNCHANGED cvars /\ UNCHANGED ovars

SubLog ==
    /\ \E p \in Submitters : SBLog(p)
    /\ UNCHANGED dvars /\ UNCHANGED bus /\ UNCHANGED cvars /\ UNCHANGED ovars

SubmitNext == SubOpen \/ SubWrite \/ SubRename \/ SubLog

SubmitSpec == Init /\ [][SubmitNext]_vars

(***************************************************************************)
(* BuildStatusCollector.                                                   *)
(***************************************************************************)
\* utils.ObjectLike over a dict: 'in', and attribute access through
\* dictlike.get(name), which gives None for a missing key.
ObjectLike_contains(d, name) == name \in DOMAIN d
ObjectLike_getattr(d, name) == IF name \in DOMAIN d THEN d[name] ELSE None

\* events.PullRequestFifoCIStatus(repo, hash, builder, pr)
PullRequestFifoCIStatus(repo, hash, builder, pr_id) ==
    [type |-> "PullRequestFifoCIStatus", repo |-> repo, hash |-> hash,
     builder |-> builder, pr |-> pr_id]

\* The raw results the build farm can send: every property value is a list
\* whose first element is the value.
RawProperty(k) ==
    CASE k = "headrev" -> <<"abcdef01", "Build">>
      [] k = "repo" -> <<"dolphin-emu/dolphin", "Build">>
      [] k = "shortrev" -> <<"abcdef", "Build">>
      [] k = "pr_id" -> <<7, "Build">>
RawProperties(ks) == [k \in ks |-> RawProperty(k)]
\* Results with the three required properties, with and without a pr_id.
FullPropertySets ==
    {{"headrev", "repo", "shortrev", "pr_id"}, {"headrev", "repo", "shortrev"}}
\* Results that lack one of the required properties.
PartPropertySets ==
    {{"repo", "shortrev", "pr_id"}, {"headrev", "shortrev", "pr_id"},
     {"headrev", "repo", "pr_id"}}
Builders == {"linux", "win", "fifoci", "other"}
RawResults ==
    [builder : Builders, complete : BOOLEAN, results : {0, 1, 2},
     url : {"http://bb/builders/1"},
     properties : {RawProperties(ks) : ks \in FullPropertySets}]
    \cup
    [builder : Builders, complete : {TRUE}, results : {0},
     url : {"http://bb/builders/1"},
     properties : {RawProperties(ks) : ks \in PartPropertySets}]

\* BuildStatusCollector.push(evt), called by BBHookListener.push_event with
\* evt.raw.
CPush(raw) ==
    /\ cpushed < MaxResults
    /\ cpushed' = cpushed + 1
    /\ cqueue' = Append(cqueue, [n |-> cpushed + 1, raw |-> raw])
    /\ chist' = Append(chist, raw)
    /\ UNCHANGED <<cdone, cpc, ccur, bus>>
    /\ UNCHANGED dvars /\ UNCHANGED fvars /\ UNCHANGED ovars

BBHook == \E raw \in RawResults : CPush(raw)

\* Lines 195-196: {k: v[0] for k, v in evt.properties.items()}
Collapse(properties) == [k \in DOMAIN properties |-> properties[k][1]]

\* Lines 197-201: the required keys are all present.
RequiredTwo(props) ==
    \A required \in {"headrev", "repo"} : ObjectLike_contains(props, required)
HasAllRequired(props) ==
    \A required \in {"headrev", "repo", "shortrev"} :
        ObjectLike_contains(props, required)

\* Line 223: 'pr_id and ...', the truth value of props.pr_id.
PrIdAny(props) == TRUE
PrIdTruthy(props) == ObjectLike_contains(props, "pr_id") /\ props["pr_id"] # 0

\* Line 208: pending = not evt.complete
IsPendingAlways(complete) == TRUE
IsPending(complete) == ~complete

\* Line 209: success = evt.results in (0, 1)
SuccessZeroOnly(results) == results = 0
Success(results) == results \in {0, 1}

\* Lines 211, 223: the branch run() takes for a result that has the required
\* properties.  The pull-request builders are tested first.
BranchFifoFirst(builder, props, success) ==
    IF PrIdTruthy(props) /\ InSeq(builder, fifoci_builders) /\ success
    THEN "fifoci"
    ELSE IF InSeq(builder, pr_builders) THEN "status" ELSE "none"
Branch(builder, props, success) ==
    IF InSeq(builder, pr_builders) THEN "status"
    ELSE IF PrIdTruthy(props) /\ InSeq(builder, fifoci_builders) /\ success
    THEN "fifoci"
    ELSE "none"

\* Lines 212-217.
Description(builder, success, pending) ==
    IF pending THEN "Auto build in progress on builder " \o builder
    ELSE IF success THEN "Build succeeded on builder " \o builder
    ELSE "Build failed on builder " \o builder

\* Lines 194-226: the events one raw result makes run() dispatch, in order.
EventsFor(raw) ==
    LET builder == raw.builder
        props == Collapse(raw.properties)
    IN  IF ~HasAllRequired(props) THEN <<>>
        ELSE LET headrev == ObjectLike_getattr(props, "headrev")
                 repo == ObjectLike_getattr(props, "repo")
                 pr_id == ObjectLike_getattr(props, "pr_id")
                 shortrev == ObjectLike_getattr(props, "shortrev")
                 pending == IsPending(raw.complete)
                 success == Success(raw.results)
                 branch == Branch(builder, props, success)
             IN  IF branch = "status"
                 THEN <<BuildStatus(repo, headrev, shortrev, builder, pr_id,
                                    success, pending, raw.url,
                                    Description(builder, success, pending))>>
                 ELSE IF branch = "fifoci"
                 THEN <<PullRequestFifoCIStatus(repo, headrev, builder, pr_id)>>
                 ELSE <<>>

\* Line 193: self.queue.get() blocks until a raw result is queued and takes
\* the oldest one.
CGet ==
    /\ cpc = "get"
    /\ cqueue # <<>>
    /\ ccur' = QueueGet(cqueue).item
    /\ cqueue' = QueueGet(cqueue).rest
    /\ cpc' = "classify"
    /\ UNCHANGED <<cpushed, cdone, chist, bus>>
    /\ UNCHANGED dvars /\ UNCHANGED fvars /\ UNCHANGED ovars

\* Lines 194-226, the rest of the turn: the result taken is classified and
\* its events dispatched on topic 'buildbot'.
CRun ==
    /\ cpc = "classify"
    /\ LET evts == EventsFor(ccur.raw)
       IN  bus' = bus \o [k \in 1..Len(evts) |->
                            [n |-> ccur.n, topic |-> "buildbot", evt |-> evts[k]]]
    /\ cdone' = cdone + 1
    /\ cpc' = "get"
    /\ UNCHANGED <<cqueue, cpushed, ccur, chist>>
    /\ UNCHANGED dvars /\ UNCHANGED fvars /\ UNCHANGED ovars

CollectorNext == BBHook \/ CGet \/ CRun

CollectorSpec == Init /\ [][CollectorNext]_vars

(***************************************************************************)
(* start(): both workers run side by side and dispatch on the same bus.    *)
(***************************************************************************)
MaxItems == 2           \* triggers and raw results pushed, taken together

BothNext ==
    \/ (pushed + cpushed < MaxItems /\ Listeners)
    \/ Worker
    \/ (pushed + cpushed < MaxItems /\ BBHook)
    \/ CGet
    \/ CRun

BothSpec == Init /\ [][BothNext]_vars

(***************************************************************************)
(* The listeners start() registers for the PullRequestBuilder: each bus    *)
(* event goes to the listener whose accept_event takes its type.           *)
(***************************************************************************)
maintain == {"dolphin-emu/dolphin"}         \* cfg.github.maintain
rebuild_repo == "dolphin-emu/dolphin"       \* cfg.irc.rebuild_repo
rebuild_command == "@central rebuild"       \* cfg.github.rebuild_command
EventRepos == {"dolphin-emu/dolphin", "someone/fork"}

\* The bus events, with the fields the listeners read.
GHPullRequests ==
    [type : {"GHPullRequest"}, action : {"opened", "synchronize", "closed"},
     repo : EventRepos, author : Who, safe_author : BOOLEAN, id : PrIds]
Bodies == {"@Central REBUILD this", "looks good to me"}
GHIssueComments ==
    [type : {"GHIssueComment"}, action : {"created", "deleted"},
     repo : EventRepos, author : Who, safe_author : BOOLEAN, body : Bodies,
     id : PrIds]
Whats == {"Rebuild PR 7", "rebuilding 7"}
IRCMessages ==
    [type : {"IRCMessage"}, direct : BOOLEAN, modes : {{}, {"o"}, {"v"}},
     what : Whats, who : Who]

\* Line 148: cfg.github.rebuild_command.lower() in evt.body.lower(), for the
\* bodies of Bodies.
HasRebuildCommand(body) ==
    CASE body = "@Central REBUILD this" -> TRUE     \* "@central rebuild this"
      [] body = "looks good to me" -> FALSE
\* Lines 173-181: re.search(r'\brebuild (pr ?)?(?P<pr_id>\d+)\b', what, re.I)
\* and int() of the group, for the messages of Whats; 0 when nothing matches.
RebuildMatch(what) ==
    CASE what = "Rebuild PR 7" -> 7
      [] what = "rebuilding 7" -> 0

\* What is kept of the bus event a listener pushed a trigger for: the
\* listener, the event's type and repository, whether its author (for a chat
\* message: its sender, by the modes) is trusted, and the kind of its action.
ActionKind(action) ==
    IF action \in {"opened", "synchronize"} THEN "opened/synchronize"
    ELSE action
Origin(listener, type, repo, privileged, action) ==
    [listener |-> listener, type |-> type, repo |-> repo,
     privileged |-> privileged, action |-> ActionKind(action)]

\* PullRequestListener: accept_event and push_event.
PullRequestListener_push_event(evt) ==
    /\ evt.type = "GHPullRequest"
    /\ evt.action = "opened" \/ evt.action = "synchronize"
    /\ evt.repo \in maintain
    /\ Push(evt.author, evt.safe_author, evt.repo, evt.id)
    /\ origin' = Append(origin, Origin("PullRequestListener", evt.type, evt.repo,
                                       evt.safe_author, evt.action))

\* ManualPullRequestListener: accept_event and push_event.
ManualPullRequestListener_unchecked(evt) ==
    /\ evt.type = "GHIssueComment"
    /\ HasRebuildCommand(evt.body)
    /\ evt.repo \in maintain
    /\ evt.action = "created"
    /\ Push(evt.author, evt.safe_author, evt.repo, evt.id)
    /\ origin' = Append(origin, Origin("ManualPullRequestListener", evt.type,
                                       evt.repo, evt.safe_author, evt.action))
ManualPullRequestListener_push_event(evt) ==
    /\ evt.type = "GHIssueComment"
    /\ evt.safe_author
    /\ HasRebuildCommand(evt.body)
    /\ evt.repo \in maintain
    /\ evt.action = "created"
    /\ Push(evt.author, evt.safe_author, evt.repo, evt.id)
    /\ origin' = Append(origin, Origin("ManualPullRequestListener", evt.type,
                                       evt.repo, evt.safe_author, evt.action))

\* IRCRebuildListener: accept_event and push_event.
IRCRebuildListener_push_event(evt) ==
    LET trusted == "o" \in evt.modes
        pr_id == RebuildMatch(evt.what)
    IN  /\ evt.type = "IRCMessage"
        /\ evt.direct /\ trusted
        /\ pr_id # 0
        /\ Push(evt.who, trusted, rebuild_repo, pr_id)
        /\ origin' = Append(origin, Origin("IRCRebuildListener", evt.type,
                                           rebuild_repo, "o" \in evt.modes,
                                           "message"))

\* events.dispatcher hands a bus event to the listener that accepts it.
Deliver ==
    \/ \E evt \in GHPullRequests : PullRequestListener_push_event(evt)
    \/ \E evt \in GHIssueComments : ManualPullRequestListener_push_event(evt)
    \/ \E evt \in IRCMessages : IRCRebuildListener_push_event(evt)

ListenNext == (pushed < MaxTriggers /\ Deliver) \/ Worker

ListenSpec == Init /\ [][ListenNext]_vars


(***************************************************************************)
(* utils.DaemonThread and utils.spawn_periodic_task, around a function     *)
(* that returns or raises an Exception as it pleases.  The function is a   *)
(* Python function: it has a __name__ for the log line of the periodic     *)
(* wrapper.                                                                *)
(***************************************************************************)
MaxInvocations == 4     \* invocations of the wrapped function, per thread
RestartDelay == 1       \* DaemonThread.run: time.sleep(1)
Intervals == {30, 600}  \* the interval handed to spawn_periodic_task
Outcomes == {"return", "raise"}

\* An entry of a thread's history: the function was called, it returned, it
\* raised, or time.sleep(secs) was called.
Step(op, secs) == [op |-> op, secs |-> secs]
NCalls(log) == Len(SelectSeq(log, LAMBDA e : e.op = "call"))

\* DaemonThread(target=f).start()
DStart ==
    /\ daemon.pc = "idle"
    /\ daemon' = [daemon EXCEPT !.pc = "call"]
    /\ UNCHANGED <<periodic, origin, bus>>
    /\ UNCHANGED dvars /\ UNCHANGED fvars /\ UNCHANGED cvars

\* DaemonThread.run, one turn of 'while True': the target is called; when it
\* returns the loop calls it again at once, when it raises an Exception the
\* failure is logged and time.sleep(1) is called.
DCall(outcome) ==
    /\ daemon.pc = "call"
    /\ NCalls(daemon.log) < MaxInvocations
    /\ daemon' =
         IF outcome = "raise"
         THEN [daemon EXCEPT
                 !.pc = "sleep",
                 !.log = @ \o <<Step("call", 0), Step("raise", 0),
                                Step("sleep", RestartDelay)>>]
         ELSE [daemon EXCEPT
                 !.log = @ \o <<Step("call", 0), Step("return", 0)>>]
    /\ UNCHANGED <<periodic, origin, bus>>
    /\ UNCHANGED dvars /\ UNCHANGED fvars /\ UNCHANGED cvars

\* time.sleep(1) returns.
DWake ==
    /\ daemon.pc = "sleep"
    /\ daemon' = [daemon EXCEPT !.pc = "call"]
    /\ UNCHANGED <<periodic, origin, bus>>
    /\ UNCHANGED dvars /\ UNCHANGED fvars /\ UNCHANGED cvars

DaemonSteps == DStart \/ (\E outcome \in Outcomes : DCall(outcome)) \/ DWake

\* spawn_periodic_task(interval, f): DaemonThread(target=wrapper).start()
PSpawn(interval) ==
    /\ periodic.pc = "idle"
    /\ periodic' = [pc |-> "call", interval |-> interval, log |-> <<>>]
    /\ UNCHANGED <<daemon, origin, bus>>
    /\ UNCHANGED dvars /\ UNCHANGED fvars /\ UNCHANGED cvars

\* wrapper, one turn of 'while True': f is called, an Exception it raises is
\* caught and logged, and time.sleep(interval) is called.
PCallUncaught(outcome) ==
    /\ periodic.pc = "call"
    /\ NCalls(periodic.log) < MaxInvocations
    /\ periodic' =
         [periodic EXCEPT
            !.pc = "sleep",
            !.log = @ \o <<Step("call", 0), Step(outcome, 0),
                           Step("sleep", IF outcome = "raise"
                                         THEN RestartDelay
                                         ELSE periodic.interval)>>]
    /\ UNCHANGED <<daemon, origin, bus>>
    /\ UNCHANGED dvars /\ UNCHANGED fvars /\ UNCHANGED cvars
PCall(outcome) ==
    /\ periodic.pc = "call"
    /\ NCalls(periodic.log) < MaxInvocations
    /\ periodic' =
         [periodic EXCEPT
            !.pc = "sleep",
            !.log = @ \o <<Step("call", 0), Step(outcome, 0),
                           Step("sleep", periodic.interval)>>]
    /\ UNCHANGED <<daemon, origin, bus>>
    /\ UNCHANGED dvars /\ UNCHANGED fvars /\ UNCHANGED cvars

\* time.sleep(interval) returns.
PWake ==
    /\ periodic.pc = "sleep"
    /\ periodic' = [periodic EXCEPT !.pc = "call"]
    /\ UNCHANGED <<daemon, origin, bus>>
    /\ UNCHANGED dvars /\ UNCHANGED fvars /\ UNCHANGED cvars

PeriodicSteps ==
    \/ \E interval \in Intervals : PSpawn(interval)
    \/ \E outcome \in Outcomes : PCall(outcome)
    \/ PWake

RunnerNext == DaemonSteps \/ PeriodicSteps

\* Both threads keep running: a call that can be made is made, a sleep ends.
RunnerSpec ==
    Init /\ [][RunnerNext]_vars /\ WF_vars(DaemonSteps) /\ WF_vars(PeriodicSteps)

(***************************************************************************)
(* Reading the histories.                                                  *)
(***************************************************************************)
NBuilders == Len(pr_builders)
Mergeables == {"true", "false", "null"}

IsPrefix(a, b) == Len(a) <= Len(b) /\ a = SubSeq(b, 1, Len(a))

\* What run() did for the trigger that arrived n-th, in order.
Ops(n) == SelectSeq(trace, LAMBDA e : e.n = n)
\* The same, after the "get" and the "fetch".
After(n) == SubSeq(Ops(n), 3, Len(Ops(n)))
Has(n, op, arg) == \E k \in DOMAIN trace : trace[k] = Did(n, op, arg)
HasOp(n, op) == \E k \in DOMAIN trace : trace[k].n = n /\ trace[k].op = op

Dequeued(n) == HasOp(n, "get")
\* run() is through with trigger n: it went on to the next turn of its loop,
\* or an exception ended the turn.
Finished(n) == Dequeued(n) /\ (cur.n # n \/ pc \in {"get", "sleep"})
Trusted(n) == Has(n, "get", "trusted")
Untrusted(n) == Has(n, "get", "untrusted")
Replied(n) == \E m \in Mergeables : Has(n, "fetch", m)
FetchFailed(n) == \E e \in FetchErrors : Has(n, "fetch", e)

\* The events dispatched for trigger n on topic 'prbuilder', in order.
Events(n) == SelectSeq(bus, LAMBDA e : e.n = n /\ e.topic = "prbuilder")
DefaultEvents(n) == SelectSeq(Events(n), LAMBDA e : e.evt.builder = "default")
\* The calls of send_build_request made for trigger n.
CallsOf(n) == {c \in DOMAIN calls : calls[c].p = "prbuilder" /\ calls[c].n = n}

IsStatus(e, builder, success, pending) ==
    /\ e.evt.type = "BuildStatus"
    /\ e.evt.builder = builder
    /\ e.evt.success = success
    /\ e.evt.pending = pending

NotTrustedTexts ==
    {"PR not built because " \o w \o " is not auto-trusted." : w \in Who}

\* What run() does for a trigger it builds, after the fetch and up to the
\* call of send_build_request.
BuildOps(n) ==
    <<Did(n, "dispatch", "default")>>
    \o [k \in 1..NBuilders |-> Did(n, "dispatch", pr_builders[k])]
    \o <<Did(n, "submit", "")>>

(***************************************************************************)
(* Claims about the PullRequestBuilder.                                    *)
(***************************************************************************)
\* C1, as stated: every untrusted trigger the worker is through with got
\* exactly one event (builder 'default', success false, pending false) and no
\* call of send_build_request, whatever came of the fetch.
C1_AsStated ==
    \A n \in 1..pushed :
        (Finished(n) /\ Untrusted(n)) =>
            /\ Len(Events(n)) = 1
            /\ IsStatus(Events(n)[1], "default", FALSE, FALSE)
            /\ ~HasOp(n, "submit")
            /\ CallsOf(n) = {}

\* C1, amended: an untrusted trigger never reaches send_build_request; when
\* its fetch gave a reply (mergeable true, false or null) it gets exactly one
\* event, the 'not auto-trusted' rejection with builder 'default', success
\* false, pending false; when its fetch raised it gets no event at all.
C1_UntrustedRejected ==
    \A n \in 1..pushed :
        Untrusted(n) =>
            /\ ~HasOp(n, "submit")
            /\ CallsOf(n) = {}
            /\ Len(Events(n)) <= 1
            /\ (Finished(n) /\ Replied(n)) =>
                  /\ Len(Events(n)) = 1
                  /\ IsStatus(Events(n)[1], "default", FALSE, FALSE)
                  /\ Events(n)[1].evt.description \in NotTrustedTexts
            /\ (Finished(n) /\ FetchFailed(n)) => Len(Events(n)) = 0

\* An untrusted trigger whose pull request is not mergeable was rejected as
\* untrusted, and another whose fetch raised is over too.
C1_Witness ==
    \E n, m \in 1..pushed :
        /\ Finished(n) /\ Untrusted(n) /\ Has(n, "fetch", "false")
        /\ Len(Events(n)) = 1
        /\ Finished(m) /\ Untrusted(m) /\ FetchFailed(m)

\* C2: a trusted trigger whose fetch says mergeable = true gets the aggregate
\* event (builder 'default', success, not pending), then one pending event per
\* configured builder in configured order, then exactly one call of
\* send_build_request, and nothing else before that call.
C2_BuildSequence ==
    \A n \in 1..pushed :
        (Trusted(n) /\ Has(n, "fetch", "true")) =>
            LET a == After(n)
                e == Events(n)
            IN  /\ IF Len(a) <= NBuilders + 2
                   THEN IsPrefix(a, BuildOps(n))
                   ELSE /\ IsPrefix(BuildOps(n), a)
                        /\ Len(a) = NBuilders + 3
                        /\ a[NBuilders + 3].op \in {"raise", "sent"}
                /\ Finished(n) => Len(a) = NBuilders + 3
                /\ Finished(n) => Len(e) = NBuilders + 1
                /\ Len(e) <= NBuilders + 1
                /\ \A k \in 1..Len(e) :
                      IF k = 1 THEN IsStatus(e[k], "default", TRUE, FALSE)
                      ELSE IsStatus(e[k], pr_builders[k - 1], FALSE, TRUE)
                /\ Cardinality(CallsOf(n)) = (IF HasOp(n, "submit") THEN 1 ELSE 0)

\* A trusted, mergeable trigger went all the way: its request was sent.
C2_Witness ==
    \E n \in 1..pushed :
        /\ Finished(n) /\ Trusted(n) /\ Has(n, "fetch", "true")
        /\ HasOp(n, "sent")
        /\ Len(Events(n)) = NBuilders + 1

\* C3: a trusted trigger whose fetch says mergeable = false gets exactly one
\* event, the 'please rebase' rejection (builder 'default', success false,
\* pending false), and send_build_request is never called for it.
C3_UnmergeableRejected ==
    \A n \in 1..pushed :
        (Trusted(n) /\ Has(n, "fetch", "false")) =>
            /\ ~HasOp(n, "submit")
            /\ CallsOf(n) = {}
            /\ Len(Events(n)) <= 1
            /\ Finished(n) =>
                  /\ Len(Events(n)) = 1
                  /\ IsStatus(Events(n)[1], "default", FALSE, FALSE)
                  /\ Events(n)[1].evt.description
                        = "PR cannot be merged, please rebase."

C3_Witness ==
    \E n \in 1..pushed :
        /\ Finished(n) /\ Trusted(n) /\ Has(n, "fetch", "false")
        /\ Len(Events(n)) = 1

Nondecreasing(ns) == \A k, l \in DOMAIN ns : k < l => ns[k] <= ns[l]

\* C4: triggers are processed one at a time in arrival order: everything
\* run() does for a trigger (fetch, events, submission) comes before anything
\* it does for a trigger pushed later, each trigger is dequeued at most once,
\* in arrival order with none skipped, and at most one is in processing.
C4_OneAtATimeInOrder ==
    /\ Nondecreasing([k \in DOMAIN trace |-> trace[k].n])
    /\ Nondecreasing([k \in DOMAIN bus |-> bus[k].n])
    /\ Nondecreasing([k \in DOMAIN calls |-> calls[k].n])
    /\ \A n \in 1..pushed :
          /\ Len(SelectSeq(Ops(n), LAMBDA e : e.op = "get")) <= 1
          /\ Dequeued(n) => \A m \in 1..n : Dequeued(m)
          /\ Dequeued(n) => Ops(n)[1].op = "get"
    /\ Cardinality({n \in 1..pushed : Dequeued(n) /\ ~Finished(n)}) <= 1
    /\ \A k \in DOMAIN queue : ~Dequeued(queue[k].n)
    /\ sb["prbuilder"].pc # "idle" =>
          calls[sb["prbuilder"].call].n = cur.n

\* Two triggers have been processed, one after the other, and both built.
C4_Witness ==
    /\ pushed >= 2
    /\ Finished(1) /\ Finished(2)
    /\ HasOp(1, "sent") /\ HasOp(2, "sent")

\* The triggers run() has taken so far, in the order it took them.
Taken == SelectSeq(trace, LAMBDA e : e.op = "get")
\* run() takes the triggers in arrival order, none skipped, and does nothing
\* for a trigger once it has taken a later one; what waits in the queue are
\* the triggers not yet taken, in arrival order.
ArrivalOrder ==
    /\ \A k \in DOMAIN Taken : Taken[k].n = k
    /\ \A k, l \in DOMAIN trace : k < l => trace[k].n <= trace[l].n
    /\ \A k \in DOMAIN queue : queue[k].n = Len(Taken) + k
    /\ Len(Taken) + Len(queue) = pushed
\* An exception has ended the turn of trigger n and DaemonThread.run has not
\* yet called run() again.
Failing(n) == pc = "sleep" /\ cur.n = n

\* C5: an exception in the turn of one trigger does not end the worker.
\* Every trigger pushed, before, during or after a failure, is eventually
\* taken and processed to the end of its turn; in particular every trigger
\* that waits behind a failing one is; and the triggers are taken and
\* processed in arrival order, also after failures and restarts.
C5_EveryTriggerProcessed ==
    /\ []ArrivalOrder
    /\ \A n \in 1..MaxFairTriggers : (pushed >= n) ~> Finished(n)
    /\ \A n \in 1..MaxFairTriggers :
          \A m \in (n + 1)..MaxFairTriggers :
              (Failing(n) /\ pushed >= m) ~> (Finished(m) /\ Finished(m - 1))

\* The fetch for the first trigger raised; the second and the third trigger
\* were taken after it, in that order, and the third one's turn, which ended
\* in an exception too, is over.
C5_Witness ==
    /\ pushed = 3
    /\ FetchFailed(1) /\ HasOp(1, "raise")
    /\ Len(Taken) = 3
    /\ Taken[2].n = 2 /\ Taken[3].n = 3
    /\ HasOp(2, "sent")
    /\ HasOp(3, "raise") /\ Finished(3)

\* C6, as stated: every trigger the worker is through with got exactly one
\* event with builder 'default', also when the fetch or the submission
\* failed.
C6_AsStated ==
    \A n \in 1..pushed : Finished(n) => Len(DefaultEvents(n)) = 1

\* C6, amended: a trigger whose fetch gave a reply gets exactly one event
\* with builder 'default' (a rejection or the 'checks passed' aggregate), also
\* when the submission fails afterwards; a trigger whose fetch raised gets no
\* event.
C6_OneDefaultStatus ==
    \A n \in 1..pushed :
        /\ Len(DefaultEvents(n)) <= 1
        /\ (Finished(n) /\ Replied(n)) =>
              /\ Len(DefaultEvents(n)) = 1
              /\ Events(n)[1].evt.builder = "default"
        /\ (Finished(n) /\ FetchFailed(n)) => Len(Events(n)) = 0

\* A trigger whose submission raised has its one 'default' event.
C6_Witness ==
    \E n \in 1..pushed :
        /\ Finished(n) /\ HasOp(n, "submit") /\ HasOp(n, "raise")
        /\ Len(DefaultEvents(n)) = 1


(***************************************************************************)
(* Claims about send_build_request and the job directory.                  *)
(***************************************************************************)
\* C7, as stated: every file in new/ holds the complete bytes of the request
\* of one call, at every moment; and once a call has renamed its file, the
\* tmp name is gone.
C7_AsStated ==
    /\ \A f \in DOMAIN new :
          /\ Complete(new[f])
          /\ \E c \in DOMAIN calls :
                calls[c].final = f /\ calls[c].req = new[f].data
    /\ \A c \in DOMAIN calls :
          calls[c].status \in {"renamed", "sent"} =>
              calls[c].path \notin DOMAIN tmp

\* The calls that returned normally: they are the submissions reported done.
Returned == {c \in DOMAIN calls : calls[c].status = "sent"}

\* C8, as stated: once the submitters are all back from their calls, new/
\* holds exactly one file per call that returned normally, under distinct
\* names, each with exactly the bytes of that call's request.
C8_AsStated ==
    (\A p \in Submitters : sb[p].pc = "idle") =>
        /\ Cardinality(DOMAIN new) = Cardinality(Returned)
        /\ \A c, d \in Returned : c # d => calls[c].final # calls[d].final
        /\ \A c \in Returned :
              /\ calls[c].final \in DOMAIN new
              /\ new[calls[c].final]
                    = [data |-> calls[c].req, n |-> Len(calls[c].req)]

\* The part of C8 that is about interleaving only: no two calls ever share a
\* tmp name or a final name, and every file in the job directory is the one
\* its own call put there.
NoInterference ==
    /\ \A c, d \in DOMAIN calls :
          c # d =>
              /\ calls[c].path # calls[d].path
              /\ calls[c].final # 0 => calls[c].final # calls[d].final
    /\ \A f \in DOMAIN tmp :
          \E c \in DOMAIN calls : calls[c].path = f /\ calls[c].req = tmp[f].data
    /\ \A f \in DOMAIN new :
          \E c \in DOMAIN calls : calls[c].final = f /\ calls[c].req = new[f].data

\* C9, as stated: when the open, the write or the rename of a call made by
\* the PullRequestBuilder fails, the call ends with the exception reaching
\* run(), the call is not reported as sent, and no file of that call is in
\* new/.
C9_AsStated ==
    \A c \in CallsOf(cur.n) \cup UNION {CallsOf(n) : n \in 1..pushed} :
        calls[c].fault # "none" =>
            /\ calls[c].final \notin DOMAIN new
            /\ calls[c].status \in {"sent", "raised"} =>
                  /\ calls[c].status = "raised"
                  /\ Has(calls[c].n, "raise", "OSError")
                  /\ ~HasOp(calls[c].n, "sent")

(***************************************************************************)
(* Claims about the BuildStatusCollector.                                  *)
(***************************************************************************)
RequiredKeys == {"headrev", "repo", "shortrev"}
Lacks(raw) == \E k \in RequiredKeys : k \notin DOMAIN raw.properties

\* The events dispatched for the raw result that arrived n-th.
CEvents(n) == SelectSeq(bus, LAMBDA e : e.n = n /\ e.topic = "buildbot")

\* The number of raw results run() has taken off the queue: those it has
\* finished with and the one it is classifying.
CTaken == cdone + (IF cpc = "classify" THEN 1 ELSE 0)

\* C10: a raw result that lacks 'headrev', 'repo' or 'shortrev' gets no event
\* and leaves the job directory untouched; the collector goes on: no result
\* is lost, and a complete result for a PR builder gets its one event, also
\* when it was queued behind a dropped one.
C10_IncompleteDropped ==
    /\ \A n \in 1..cpushed : Lacks(chist[n]) => Len(CEvents(n)) = 0
    /\ \A n \in 1..cpushed :
          (n <= cdone /\ ~Lacks(chist[n]) /\ InSeq(chist[n].builder, pr_builders))
              => /\ Len(CEvents(n)) = 1
                 /\ CEvents(n)[1].evt.type = "BuildStatus"
    /\ Len(cqueue) = cpushed - CTaken
    /\ \A k \in DOMAIN cqueue : cqueue[k].n = CTaken + k
    /\ \A k \in DOMAIN cqueue : cqueue[k].raw = chist[cqueue[k].n]
    /\ cpc = "classify" => (ccur.n = cdone + 1 /\ ccur.raw = chist[ccur.n])
    /\ \A n \in (cdone + 1)..cpushed : Len(CEvents(n)) = 0
    /\ tmp = <<>> /\ new = <<>> /\ calls = <<>> /\ drawn = 0

\* A PR builder's result without 'shortrev' was dropped, and the complete
\* result queued behind it got its event.
C10_Witness ==
    /\ cdone >= 2
    /\ "shortrev" \notin DOMAIN chist[1].properties
    /\ InSeq(chist[1].builder, pr_builders)
    /\ Len(CEvents(1)) = 0
    /\ ~Lacks(chist[2])
    /\ Len(CEvents(2)) = 1


\* The raw result that arrived n-th has been taken off the queue and has the
\* three required properties.
Classified(n) == n <= cdone /\ ~Lacks(chist[n])
HasPrId(raw) == "pr_id" \in DOMAIN raw.properties

\* C11: for a raw result with all required properties whose builder is a PR
\* builder the collector dispatches exactly one event, a BuildStatus with
\* pending = not complete and success = (result code is 0 or 1), whatever the
\* combination of complete and result code; the event carries the result's
\* repo, revision, builder, pr id and url.
C11_StatusForPrBuilder ==
    \A n \in 1..cpushed :
        (Classified(n) /\ InSeq(chist[n].builder, pr_builders))
            => /\ Len(CEvents(n)) = 1
               /\ LET e == CEvents(n)[1].evt
                      raw == chist[n]
                  IN  /\ e.type = "BuildStatus"
                      /\ e.pending = (~raw.complete)
                      /\ e.success = (raw.results = 0 \/ raw.results = 1)
                      /\ e.builder = raw.builder
                      /\ e.repo = raw.properties["repo"][1]
                      /\ e.hash = raw.properties["headrev"][1]
                      /\ e.shortrev = raw.properties["shortrev"][1]
                      /\ e.url = raw.url

\* A finished build with result code 1 (warnings) on a PR builder was
\* reported finished and successful, and an unfinished one with result code 2
\* was reported pending and unsuccessful.
C11_Witness ==
    /\ cdone >= 2
    /\ chist[1].builder = "linux" /\ chist[1].complete /\ chist[1].results = 1
    /\ ~Lacks(chist[1])
    /\ Len(CEvents(1)) = 1
    /\ CEvents(1)[1].evt.success /\ ~CEvents(1)[1].evt.pending
    /\ chist[2].builder = "linux" /\ ~chist[2].complete /\ chist[2].results = 2
    /\ ~Lacks(chist[2])
    /\ Len(CEvents(2)) = 1
    /\ ~CEvents(2)[1].evt.success /\ CEvents(2)[1].evt.pending

\* C12: for a raw result with all required properties whose builder is not a
\* PR builder the collector dispatches exactly one PullRequestFifoCIStatus,
\* and no BuildStatus, when the result has a pull-request id, its builder is
\* a FifoCI builder and its result code is 0 or 1; otherwise it dispatches
\* nothing.
C12_FifoCIOnlyWhenQualified ==
    \A n \in 1..cpushed :
        (Classified(n) /\ ~InSeq(chist[n].builder, pr_builders))
            => LET raw == chist[n]
                   qualified == /\ HasPrId(raw)
                                /\ InSeq(raw.builder, fifoci_builders)
                                /\ (raw.results = 0 \/ raw.results = 1)
               IN  IF qualified
                   THEN /\ Len(CEvents(n)) = 1
                        /\ CEvents(n)[1].evt.type = "PullRequestFifoCIStatus"
                        /\ CEvents(n)[1].evt.builder = raw.builder
                        /\ CEvents(n)[1].evt.repo = raw.properties["repo"][1]
                        /\ CEvents(n)[1].evt.hash = raw.properties["headrev"][1]
                        /\ CEvents(n)[1].evt.pr = raw.properties["pr_id"][1]
                   ELSE Len(CEvents(n)) = 0

\* A successful FifoCI result with a pull-request id got its event, and a
\* successful FifoCI result without one got none.
C12_Witness ==
    /\ cdone >= 2
    /\ chist[1].builder = "fifoci" /\ chist[1].results = 0
    /\ ~Lacks(chist[1]) /\ HasPrId(chist[1])
    /\ Len(CEvents(1)) = 1
    /\ CEvents(1)[1].evt.type = "PullRequestFifoCIStatus"
    /\ chist[2].builder = "fifoci" /\ chist[2].results = 0
    /\ ~Lacks(chist[2]) /\ ~HasPrId(chist[2])
    /\ Len(CEvents(2)) = 0

\* C13: a result whose builder is both a PR builder and a FifoCI builder is
\* handled by the PR-builder branch alone: one BuildStatus and no
\* PullRequestFifoCIStatus, also when it has a pull-request id and succeeded.
C13_PrBranchWins ==
    \A n \in 1..cpushed :
        (/\ Classified(n)
         /\ InSeq(chist[n].builder, pr_builders)
         /\ InSeq(chist[n].builder, fifoci_builders))
            => /\ \A k \in DOMAIN CEvents(n) :
                      CEvents(n)[k].evt.type # "PullRequestFifoCIStatus"
               /\ Len(SelectSeq(CEvents(n),
                                LAMBDA e : e.evt.type = "BuildStatus")) = 1

\* A finished, successful result with a pull-request id for a builder of both
\* sets got a BuildStatus only.
C13_Witness ==
    /\ cdone >= 1
    /\ chist[1].builder = "win"
    /\ InSeq("win", pr_builders) /\ InSeq("win", fifoci_builders)
    /\ ~Lacks(chist[1]) /\ HasPrId(chist[1])
    /\ chist[1].complete /\ chist[1].results = 0
    /\ Len(CEvents(1)) = 1
    /\ CEvents(1)[1].evt.type = "BuildStatus"


\* How the calls recorded in a thread's history ended, in order.
Outs(log) == SelectSeq(log, LAMBDA e : e.op \in Outcomes)
Sleeps(log) == SelectSeq(log, LAMBDA e : e.op = "sleep")
\* The function raised on its first two invocations and returned on the third.
RaisedTwiceThenReturned(log) ==
    /\ Len(Outs(log)) >= 3
    /\ Outs(log)[1].op = "raise"
    /\ Outs(log)[2].op = "raise"
    /\ Outs(log)[3].op = "return"

\* C14, as stated: a function that raises on its first two invocations and
\* returns on the third is invoked exactly three times by DaemonThread.run,
\* with the one-second wait after each of the two failures, and the thread
\* lives on.  (The history shows a fourth invocation, made at once after the
\* third returned.)
C14_AsStated ==
    RaisedTwiceThenReturned(daemon.log)
        => /\ NCalls(daemon.log) = 3
           /\ Len(Sleeps(daemon.log)) = 2
           /\ \A k \in DOMAIN Sleeps(daemon.log) :
                  Sleeps(daemon.log)[k].secs = RestartDelay
           /\ daemon.pc \in {"call", "sleep"}

\* The history of the periodic thread is a repetition of: call, outcome,
\* sleep(interval).
PeriodicWaits ==
    /\ periodic.pc \in {"idle", "call", "sleep"}
    /\ Len(periodic.log) = 3 * NCalls(periodic.log)
    /\ \A k \in 1..NCalls(periodic.log) :
          /\ periodic.log[3 * k - 2].op = "call"
          /\ periodic.log[3 * k - 1].op \in Outcomes
          /\ periodic.log[3 * k] = Step("sleep", periodic.interval)

\* C19: once spawned, the periodic task keeps invoking the function (every
\* number of invocations is reached), an invocation that raises stops, skips
\* or hurries none of the later ones, and between every two consecutive
\* invocations, whether the earlier one returned or raised, there is exactly
\* one wait of the interval.
C19_PeriodicKeepsRunning ==
    /\ []PeriodicWaits
    /\ \A k \in 1..MaxInvocations :
          (periodic.pc # "idle") ~> (NCalls(periodic.log) >= k)

\* The function raised, the interval was waited, and it was invoked again.
C19_Witness ==
    \E k \in 1..NCalls(periodic.log) :
        /\ k < NCalls(periodic.log)
        /\ periodic.log[3 * k - 1].op = "raise"
        /\ periodic.log[3 * k] = Step("sleep", periodic.interval)
        /\ periodic.log[3 * k + 1].op = "call"


\* The BuildStatus events on the bus, of either worker.
Statuses == SelectSeq(bus, LAMBDA e : e.evt.type = "BuildStatus")

\* C15, as stated: no BuildStatus dispatched by the PullRequestBuilder or by
\* the BuildStatusCollector has pending and success both true.
C15_AsStated ==
    \A k \in DOMAIN Statuses : ~(Statuses[k].evt.pending /\ Statuses[k].evt.success)

\* C15, amended: no BuildStatus of the PullRequestBuilder has pending and
\* success both true; one of the BuildStatusCollector has both exactly when
\* its raw result is not complete and has result code 0 or 1.
C15_PendingAndSuccess ==
    \A k \in DOMAIN Statuses :
        LET e == Statuses[k]
        IN  (e.evt.pending /\ e.evt.success)
                <=> /\ e.topic = "buildbot"
                    /\ ~chist[e.n].complete
                    /\ chist[e.n].results \in {0, 1}

\* The PullRequestBuilder dispatched a pending event for a builder, and the
\* BuildStatusCollector dispatched an event that is pending and successful
\* for an unfinished build with result code 0.
C15_Witness ==
    /\ \E k \in DOMAIN Statuses :
          /\ Statuses[k].topic = "prbuilder"
          /\ Statuses[k].evt.pending
          /\ Statuses[k].evt.builder = "linux"
    /\ \E k \in DOMAIN Statuses :
          /\ Statuses[k].topic = "buildbot"
          /\ Statuses[k].evt.pending /\ Statuses[k].evt.success
          /\ ~chist[Statuses[k].n].complete
          /\ chist[Statuses[k].n].results = 0


\* The JSON text json.dumps gives for the job description of pull request 7
\* and of pull request 12 of dolphin-emu/dolphin, head abcdef01, base
\* 98765432, on behalf of bob: one object, printable ASCII only.
JsonObject7 ==
    "{\"branch\": \"refs/pull/7/head\", \"builderNames\": [\"linux\", \"win\"], "
    \o "\"jobid\": \"7-abcdef\", \"baserev\": \"\", \"patch_level\": 0, "
    \o "\"patch_body\": null, \"who\": \"Central (on behalf of: bob)\", "
    \o "\"comment\": \"Auto build for PR #7 (abcdef01).\", "
    \o "\"properties\": {\"branchname\": \"pr-7\", \"baserev\": \"98765432\", "
    \o "\"headrev\": \"abcdef01\", \"shortrev\": \"abcdef\", \"pr_id\": 7, "
    \o "\"repo\": \"dolphin-emu/dolphin\"}}"
JsonObject12 ==
    "{\"branch\": \"refs/pull/12/head\", \"builderNames\": [\"linux\", \"win\"], "
    \o "\"jobid\": \"12-abcdef\", \"baserev\": \"\", \"patch_level\": 0, "
    \o "\"patch_body\": null, \"who\": \"Central (on behalf of: bob)\", "
    \o "\"comment\": \"Auto build for PR #12 (abcdef01).\", "
    \o "\"properties\": {\"branchname\": \"pr-12\", \"baserev\": \"98765432\", "
    \o "\"headrev\": \"abcdef01\", \"shortrev\": \"abcdef\", \"pr_id\": 12, "
    \o "\"repo\": \"dolphin-emu/dolphin\"}}"

\* The job description the request of a send_build_request call was built
\* from: its pull request id.
DescribedBy(req, id) ==
    \E h \in Shas :
        req = RequestFor([n |-> 0, in_behalf_of |-> "bob", trusted |-> TRUE,
                          repo |-> "dolphin-emu/dolphin", pr_id |-> id],
                         [mergeable |-> "true", base |-> BaseSha, head |-> h])

\* C16: the output of make_build_request for a job description is the four
\* bytes '1:5,', then the decimal length of the payload, ':', the payload and
\* ',', with nothing after it; the declared length is the payload's length;
\* the payload is the JSON object of the job description, in ASCII.
C16_RequestFraming ==
    \A c \in DOMAIN calls :
        \E id \in SubPrIds :
            LET payload == IF id = 7 THEN JsonObject7 ELSE JsonObject12
                declared == ToString(Len(payload))
            IN  /\ DescribedBy(calls[c].req, id)
                /\ calls[c].req = "1:5," \o declared \o ":" \o payload \o ","
                /\ Len(calls[c].req) = 4 + Len(declared) + 1 + Len(payload) + 1

\* make_build_request was applied to the job description of pull request 12:
\* its output declares the 377 bytes of the payload and is 386 bytes long.
C16_Witness ==
    \E c \in DOMAIN calls :
        /\ DescribedBy(calls[c].req, 12)
        /\ calls[c].req = "1:5,377:" \o JsonObject12 \o ","
        /\ Len(JsonObject12) = 377
        /\ Len(calls[c].req) = 386


\* The places of the queue that hold the trigger that arrived n-th.
Queued(n) == {k \in DOMAIN queue : queue[k].n = n}
\* How often run() did op for trigger n.
Count(n, op) == Len(SelectSeq(trace, LAMBDA e : e.n = n /\ e.op = op))
\* An exception ended the processing of trigger n.
Failed(n) == HasOp(n, "raise")

\* C17: a pushed trigger is in the queue once until run() takes it and never
\* again afterwards, so it is dequeued once and never processed twice; it
\* causes at most one call of send_build_request; and once an exception has
\* ended its processing, also after DaemonThread.run has called run() again,
\* nothing more is done for it: it is not re-queued, not retried, not built.
C17_ConsumedOnce ==
    \A n \in 1..pushed :
        /\ Count(n, "get") <= 1
        /\ Cardinality(Queued(n)) = (IF Dequeued(n) THEN 0 ELSE 1)
        /\ Count(n, "submit") <= 1
        /\ Cardinality(CallsOf(n)) = Count(n, "submit")
        /\ Count(n, "raise") <= 1
        /\ Failed(n)
              => /\ Ops(n)[Len(Ops(n))].op = "raise"
                 /\ cur.n = n => pc \in {"sleep", "get"}
                 /\ \A c \in CallsOf(n) : calls[c].status = "raised"
                 /\ ~HasOp(n, "sent")
        /\ (Dequeued(n) /\ cur.n # n)
              => Ops(n)[Len(Ops(n))].op \in {"raise", "sent", "dispatch"}

\* The fetch for the first trigger raised, DaemonThread.run called run()
\* again, and run() took the second trigger and submitted its job; the first
\* trigger was taken once and never submitted.
C17_Witness ==
    /\ pushed >= 2
    /\ FetchFailed(1) /\ Failed(1)
    /\ Count(1, "get") = 1
    /\ Count(1, "submit") = 0
    /\ Queued(1) = {}
    /\ HasOp(2, "sent")
    /\ Cardinality(CallsOf(2)) = 1


\* The events dispatched for trigger n, without their bus bookkeeping.
Evts(n) == [k \in DOMAIN Events(n) |-> Events(n)[k].evt]
\* The requests handed to send_build_request for trigger n.
RequestsOf(n) == {calls[c].req : c \in CallsOf(n)}
RebaseText == "PR cannot be merged, please rebase."

\* C18: a trusted trigger whose fetch says mergeable = null is processed as
\* one whose fetch says true: the aggregate 'checks passed' event, one
\* pending event per builder, one call of send_build_request, and for the
\* same pull request the same events and the same request bytes; the 'please
\* rebase' rejection is dispatched only for a fetch that says false.
C18_NullBuildsLikeTrue ==
    /\ \A n \in 1..pushed :
          (Trusted(n) /\ Has(n, "fetch", "null")) =>
              LET a == After(n)
                  e == Events(n)
              IN  /\ IF Len(a) <= NBuilders + 2
                     THEN IsPrefix(a, BuildOps(n))
                     ELSE IsPrefix(BuildOps(n), a)
                  /\ Finished(n) => Len(e) = NBuilders + 1
                  /\ \A k \in 1..Len(e) :
                        IF k = 1
                        THEN /\ IsStatus(e[k], "default", TRUE, FALSE)
                             /\ e[k].evt.description
                                   = "Very basic checks passed, handed off to Buildbot."
                        ELSE IsStatus(e[k], pr_builders[k - 1], FALSE, TRUE)
                  /\ Finished(n) => Cardinality(CallsOf(n)) = 1
    /\ \A n, m \in 1..pushed :
          (/\ Trusted(n) /\ Has(n, "fetch", "null") /\ HasOp(n, "submit")
           /\ Trusted(m) /\ Has(m, "fetch", "true") /\ HasOp(m, "submit"))
              => /\ Evts(n) = Evts(m)
                 /\ RequestsOf(n) = RequestsOf(m)
    /\ \A n \in 1..pushed :
          \A k \in DOMAIN Events(n) :
              Events(n)[k].evt.description = RebaseText
                  => Has(n, "fetch", "false")

\* A trusted trigger with mergeable = null and one with mergeable = true have
\* both been submitted, with the same full sequence of events.
C18_Witness ==
    \E n, m \in 1..pushed :
        /\ Trusted(n) /\ Has(n, "fetch", "null") /\ HasOp(n, "sent")
        /\ Trusted(m) /\ Has(m, "fetch", "true") /\ HasOp(m, "sent")
        /\ Len(Evts(n)) = NBuilders + 1
        /\ Evts(n) = Evts(m)


\* The trust flag of the trigger that arrived n-th: as it waits in the queue,
\* or as run() took it.
TrustOf(n) ==
    IF Queued(n) # {} THEN \A k \in Queued(n) : queue[k].trusted
    ELSE Trusted(n)

\* C20: whatever bus events come in, send_build_request is called, and a job
\* file written, only for a trusted trigger; a trigger pushed by the comment
\* listener or the chat listener comes from a trusted or privileged identity
\* and is trusted; an untrusted trigger comes from a pull-request event with
\* action opened or synchronize; and the pull-request and comment listeners
\* push nothing for a repository outside cfg.github.maintain.
C20_OnlyTrustedBuilt ==
    /\ Len(origin) = pushed
    /\ \A c \in DOMAIN calls :
          /\ calls[c].p = "prbuilder"
          /\ calls[c].n \in 1..pushed
          /\ TrustOf(calls[c].n)
    /\ \A n \in 1..pushed :
          LET o == origin[n]
          IN  /\ o.listener \in {"PullRequestListener",
                                 "ManualPullRequestListener",
                                 "IRCRebuildListener"}
              /\ o.listener \in {"ManualPullRequestListener",
                                 "IRCRebuildListener"}
                    => (o.privileged /\ TrustOf(n))
              /\ ~TrustOf(n)
                    => /\ o.listener = "PullRequestListener"
                       /\ o.type = "GHPullRequest"
                       /\ o.action = "opened/synchronize"
                       /\ ~o.privileged
                       /\ ~HasOp(n, "submit")
              /\ o.listener \in {"PullRequestListener",
                                 "ManualPullRequestListener"}
                    => o.repo \in maintain

\* An untrusted author's pull request was opened or synchronized and
\* rejected, then a chat operator asked for a rebuild and the job was
\* submitted.
C20_Witness ==
    /\ pushed >= 2
    /\ origin[1].listener = "PullRequestListener"
    /\ origin[1].action = "opened/synchronize"
    /\ ~origin[1].privileged
    /\ Untrusted(1) /\ Finished(1) /\ CallsOf(1) = {}
    /\ origin[2].listener = "IRCRebuildListener"
    /\ Trusted(2) /\ HasOp(2, "sent")

=============================================================================
